---- MODULE Spec2Model ----
(***************************************************************************)
(* A model of DataProcessor (src/PythonProject1): the text normaliser, the *)
(* two header classifiers, the two loaders, the aggregation, the           *)
(* composite-key matcher and the report builder, as process_files runs     *)
(* them; and start_processing with its progress windows, worker threads    *)
(* and check_thread callbacks.                                             *)
(*                                                                         *)
(* Text is a sequence of one-character strings.  A header is a sequence of *)
(* fragments (the keywords the classifiers look for and the text between   *)
(* them), so that "kw in col_name" is containment of a contiguous run.     *)
(* The module is ASCII only: Russian fragments and column names are        *)
(* transliterated, the original is given where the fragment is defined.    *)
(***************************************************************************)
EXTENDS Integers, Sequences, FiniteSets, TLC

VARIABLES
    pc,            \* the stage process_files is about to run
    exit,          \* how process_files ended ("" while it runs)
    st_sheet,      \* sheet 'Vidy rabot' of the structure file, as read
    id_sheet,      \* the documentation sheet, as read
    st_mapping,    \* the columns and column_mapping of load_structure_data
    id_mapping,    \* the columns and column_mapping of load_id_data
    structure_df,  \* what load_structure_data returned
    id_df,         \* what load_id_data returned
    pivot_df,      \* what create_pivot_table returned
    result_df,     \* what optimize_matching returned (the same object)
    final_report,  \* what create_final_report returned
    report_file,   \* the report this run wrote (NoneDf: none written)
    ntStage,       \* position of the normalize_text driver
    ntText,        \* the value handed to normalize_text
    ntOnce,        \* normalize_text(ntText)
    ntTwice,       \* normalize_text(normalize_text(ntText))
    progress_window,  \* DataProcessor.progress_window: 0 (None) or a window
    current_folder,   \* DataProcessor.current_folder
    windows,       \* the ProgressWindow objects, in the order of their creation
    runs,          \* the threads of process_files, one per start_processing
    checks         \* the check_thread callback of each start_processing

pfVars == <<pc, exit, st_sheet, id_sheet, st_mapping, id_mapping,
            structure_df, id_df, pivot_df, result_df, final_report, report_file>>
ntVars == <<ntStage, ntText, ntOnce, ntTwice>>
uiVars == <<progress_window, current_folder, windows, runs, checks>>

----------------------------------------------------------------------------
(* Cell values: a spreadsheet cell is missing (NaN), a text or a number.   *)

NaN == [k |-> "nan", s |-> <<>>, n |-> 0]
Str(s) == [k |-> "str", s |-> s, n |-> 0]
Num(n) == [k |-> "num", s |-> <<>>, n |-> n]

----------------------------------------------------------------------------
(* Text primitives of Python and pandas used by the source.                *)

\* str.isspace for one character (the whitespace of str.strip and of \s)
IsSpace(c) == c \in {" ", "\t"}

\* \w of the re module for one character: letters, digits, underscore
IsWord(c) == c \in {"a", "b", "A", "B", "_", "0", "1", "2", "3", "4",
                    "5", "6", "7", "8", "9"}

\* str.lower for one character or header fragment
LowerChar(c) ==
    CASE c = "A" -> "a"
      [] c = "B" -> "b"
      [] c = "Work" -> "work"
      [] c = "Proekt" -> "proekt"
      [] c = "Marka" -> "marka"
      [] c = "Konstrukciya" -> "konstrukciya"
      [] c = ".XLSX" -> ".xlsx"
      [] OTHER -> c

Lower(s) == [i \in 1..Len(s) |-> LowerChar(s[i])]

RECURSIVE LStrip(_)
LStrip(s) ==
    IF s # <<>> /\ IsSpace(Head(s)) THEN LStrip(Tail(s)) ELSE s

RECURSIVE RStrip(_)
RStrip(s) ==
    IF s # <<>> /\ IsSpace(s[Len(s)]) THEN RStrip(SubSeq(s, 1, Len(s) - 1)) ELSE s

\* str.strip(): leading and trailing whitespace removed
Strip(s) == RStrip(LStrip(s))

\* "kw in s": kw occurs in s as a contiguous run
Contains(s, kw) ==
    \E i \in 0..(Len(s) - Len(kw)) : SubSeq(s, i + 1, i + Len(kw)) = kw

\* re.sub(r'\s+', ' ', s): every maximal run of whitespace becomes one space
RECURSIVE CollapseSpaces(_)
CollapseSpaces(s) ==
    IF s = <<>> THEN <<>>
    ELSE IF IsSpace(Head(s))
         THEN <<" ">> \o CollapseSpaces(LStrip(s))
         ELSE <<Head(s)>> \o CollapseSpaces(Tail(s))

\* re.sub(r'[^\w\s]', '', s): every character that is neither a word
\* character nor whitespace is removed
RECURSIVE DropPunctuation(_)
DropPunctuation(s) ==
    IF s = <<>> THEN <<>>
    ELSE IF IsWord(Head(s)) \/ IsSpace(Head(s))
         THEN <<Head(s)>> \o DropPunctuation(Tail(s))
         ELSE DropPunctuation(Tail(s))

\* DataProcessor.normalize_text: "" for a value that is not a str, else
\* lower().strip(), then the whitespace runs, then the punctuation
normalize_text(v) ==
    IF v.k # "str" THEN <<>>
    ELSE DropPunctuation(CollapseSpaces(Strip(Lower(v.s))))

----------------------------------------------------------------------------
(* Column names.  A canonical name is a one-fragment header; NoField marks *)
(* a column that column_mapping has no entry for.                          *)

NoField == <<>>

\* documentation schema                        (source name)
Obem_po_dokumentu == <<"Obem_po_dokumentu">>            \* 'Объем_по_документу'
Shifr_komplekta == <<"Shifr_komplekta">>                \* 'Шифр_комплекта'
Konstruktivnyi_element == <<"Konstruktivnyi_element">>  \* 'Конструктивный_элемент'
Vid_rabot == <<"Vid_rabot">>                            \* 'Вид_работ'

\* structure schema
Proekt == <<"Proekt">>                                  \* 'Проект'
Marka == <<"Marka">>                                    \* 'Марка'
Konstrukciya == <<"Konstrukciya">>                      \* 'Конструкция'
Vid_rabot_po_klassifikatoru == <<"Vid_rabot_po_klassifikatoru">>
Ed_izm == <<"Ed_izm">>                                  \* 'Ед_изм'
Proektnyi_obem == <<"Proektnyi_obem">>                  \* 'Проектный_объем'
Vypolneno_v_nature == <<"Vypolneno_v_nature">>          \* 'Выполнено_в_натуре'
Prinyato_po_RFI == <<"Prinyato_po_RFI">>                \* 'Принято_по_RFI'
Podtverzhdeno_ID == <<"Podtverzhdeno_ID">>              \* 'Подтверждено_ИД'

\* the elements of a sequence
Range(s) == {s[i] : i \in 1..Len(s)}

\* the positions of the columns of that name
Positions(cols, name) == {i \in 1..Len(cols) : cols[i] = name}

----------------------------------------------------------------------------
(* clean_dataframe_columns: every name stripped, then a name seen before   *)
(* gets the first free suffix _dup1, _dup2, ...  (A MultiIndex header is   *)
(* flattened by pandas before this; the model starts from flat headers.)   *)

RECURSIVE DupName(_, _, _)
DupName(col, seen, counter) ==
    LET new_col_name == col \o <<"_dup", ToString(counter)>>
    IN  IF new_col_name \in seen THEN DupName(col, seen, counter + 1)
        ELSE new_col_name

RECURSIVE Dedup(_, _)
Dedup(cols, new_columns) ==
    IF cols = <<>> THEN new_columns
    ELSE LET col == Head(cols)
             seen == Range(new_columns)
         IN  IF col \notin seen
             THEN Dedup(Tail(cols), Append(new_columns, col))
             ELSE Dedup(Tail(cols), Append(new_columns, DupName(col, seen, 1)))

clean_dataframe_columns(cols) ==
    Dedup([i \in 1..Len(cols) |-> Strip(cols[i])], <<>>)

----------------------------------------------------------------------------
(* Header classifier of the documentation schema (load_id_data).           *)

\* the keyword tests, on the lower-cased header, one per target name
IdKeywordTest(field, n) ==
    CASE field = Obem_po_dokumentu ->
           \* 'объём по документу' / 'объем по документу' and 'work scopes'
           \/ Contains(n, <<"obyom po dokumentu">>) /\ Contains(n, <<"work", " scopes">>)
           \/ Contains(n, <<"obem po dokumentu">>) /\ Contains(n, <<"work", " scopes">>)
      [] field = Shifr_komplekta ->
           \* 'шифры комплектов рд', 'detailed design documents sections',
           \* 'шифры комплектов', 'detailed design', 'шифр', 'комплект', 'рд'
           \/ /\ Contains(n, <<"shifr", "y ", "komplekt", "ov", " ", "rd">>)
              /\ Contains(n, <<"detailed design", " documents sections">>)
           \/ /\ Contains(n, <<"shifr", "y ", "komplekt", "ov">>)
              /\ Contains(n, <<"detailed design">>)
           \/ Contains(n, <<"shifr", "y ", "komplekt", "ov", " ", "rd">>)
           \/ Contains(n, <<"detailed design", " documents sections">>)
           \/ /\ Contains(n, <<"shifr">>)
              /\ Contains(n, <<"komplekt">>)
              /\ Contains(n, <<"rd">>)
      [] field = Konstruktivnyi_element ->
           \* 'конструктив', 'construction', 'элемент', 'element',
           \* 'конструкц', 'конструкции'
           \/ Contains(n, <<"konstruk", "tiv">>)
           \/ Contains(n, <<"construction">>)
           \/ Contains(n, <<"ehlement">>)
           \/ Contains(n, <<"element">>)
           \/ Contains(n, <<"konstruk", "c">>)
           \/ Contains(n, <<"konstruk", "c", "ii">>)
      [] field = Vid_rabot ->
           \* 'вид работ', 'works', 'work', 'type of work', 'вид_работ',
           \* 'type of' and 'work'
           \/ Contains(n, <<"vid rabot">>)
           \/ Contains(n, <<"work", "s">>)
           \/ Contains(n, <<"work">>)
           \/ Contains(n, <<"type of", " ", "work">>)
           \/ Contains(n, <<"vid_rabot">>)
           \/ Contains(n, <<"type of">>) /\ Contains(n, <<"work">>)
      [] OTHER -> FALSE

\* the order in which the loop body tries the target names
IdRuleOrder ==
    <<Obem_po_dokumentu, Shifr_komplekta, Konstruktivnyi_element, Vid_rabot>>

\* one pass of the loop body: the first rule, in order, whose target is not
\* yet among column_mapping.values() and whose keyword test holds
RECURSIVE IdClassifyFrom(_, _, _)
IdClassifyFrom(k, col_name, assigned) ==
    IF k > Len(IdRuleOrder) THEN NoField
    ELSE IF IdRuleOrder[k] \notin assigned /\ IdKeywordTest(IdRuleOrder[k], col_name)
         THEN IdRuleOrder[k]
         ELSE IdClassifyFrom(k + 1, col_name, assigned)

\* the loop body without the 'not in column_mapping.values()' guards
IdClassifyColumnUnguarded(col, assigned) == IdClassifyFrom(1, Lower(col), {})

IdClassifyColumn(col, assigned) == IdClassifyFrom(1, Lower(col), assigned)

\* the loop over df.columns; mapping[i] is column_mapping[cols[i]], or
\* NoField when cols[i] is not in column_mapping
RECURSIVE IdMappingFrom(_, _)
IdMappingFrom(cols, mapping) ==
    IF Len(mapping) = Len(cols) THEN mapping
    ELSE IdMappingFrom(cols,
            Append(mapping,
                   IdClassifyColumn(cols[Len(mapping) + 1],
                                    Range(mapping) \ {NoField})))

id_column_mapping(cols) == IdMappingFrom(cols, <<>>)

----------------------------------------------------------------------------
(* Header classifier of the structure schema (load_structure_data).        *)

StKeywordTest(field, n) ==
    CASE field = Proekt -> Contains(n, <<"proekt">>)                  \* 'проект'
      [] field = Marka ->                                       \* 'марка', 'шифр'
           Contains(n, <<"marka">>) \/ Contains(n, <<"shifr">>)
      [] field = Konstrukciya -> Contains(n, <<"konstrukciya">>)      \* 'конструкция'
      [] field = Vid_rabot_po_klassifikatoru ->
           Contains(n, <<"vid rabot">>)                               \* 'вид работ'
      [] field = Ed_izm -> Contains(n, <<"ed. izm">>)                 \* 'ед. изм'
      [] field = Proektnyi_obem ->
           Contains(n, <<"proekt", "nyi obem">>)                      \* 'проектный объем'
      [] field = Vypolneno_v_nature ->
           Contains(n, <<"vypolneno v nature">>)                      \* 'выполнено в натуре'
      [] field = Prinyato_po_RFI ->
           Contains(n, <<"prinyato po rfi">>)                         \* 'принято по rfi'
      [] OTHER -> FALSE

\* the order of the if / elif chain
StRuleOrder ==
    <<Proekt, Marka, Konstrukciya, Vid_rabot_po_klassifikatoru, Ed_izm,
      Proektnyi_obem, Vypolneno_v_nature, Prinyato_po_RFI>>

\* the if / elif chain: the first branch whose keyword test holds and whose
\* target is not yet among column_mapping.values()
RECURSIVE StClassifyFrom(_, _, _)
StClassifyFrom(k, col_name, assigned) ==
    IF k > Len(StRuleOrder) THEN NoField
    ELSE IF StKeywordTest(StRuleOrder[k], col_name) /\ StRuleOrder[k] \notin assigned
         THEN StRuleOrder[k]
         ELSE StClassifyFrom(k + 1, col_name, assigned)

StClassifyColumn(col, assigned) == StClassifyFrom(1, Lower(col), assigned)

RECURSIVE StMappingFrom(_, _)
StMappingFrom(cols, mapping) ==
    IF Len(mapping) = Len(cols) THEN mapping
    ELSE StMappingFrom(cols,
            Append(mapping,
                   StClassifyColumn(cols[Len(mapping) + 1],
                                    Range(mapping) \ {NoField})))

st_column_mapping(cols) == StMappingFrom(cols, <<>>)

\* df.rename(columns=column_mapping)
Rename(cols, mapping) ==
    [i \in 1..Len(cols) |-> IF mapping[i] = NoField THEN cols[i] ELSE mapping[i]]

----------------------------------------------------------------------------
(* Tables.  A sheet is its header row and its data rows, every row a       *)
(* sequence of cells aligned with the headers.  A DataFrame is the same    *)
(* with column names; NoneDf is the None a loader returns.                 *)

Sheet(headers, rows) == [headers |-> headers, rows |-> rows]
DataFrame(cols, rows) == [ok |-> TRUE, cols |-> cols, rows |-> rows]
NoneDf == [ok |-> FALSE, cols |-> <<>>, rows |-> <<>>]

\* the position of the (single) column of that name
ColumnIndex(cols, name) == CHOOSE i \in 1..Len(cols) : cols[i] = name

\* row[name]
Cell(cols, row, name) == row[ColumnIndex(cols, name)]

\* df[names]: the columns of those names, in that order
Project(cols, rows, names) ==
    [r \in 1..Len(rows) |->
        [j \in 1..Len(names) |-> Cell(cols, rows[r], names[j])]]

\* str(x) of a number
NumberText(n) == <<ToString(n)>>

\* .fillna('').astype(str).str.strip() on one cell
CleanText(c) ==
    CASE c.k = "nan" -> Str(<<>>)
      [] c.k = "str" -> Str(Strip(c.s))
      [] c.k = "num" -> Str(NumberText(c.n))

\* pd.to_numeric(..., errors='coerce').fillna(0) on one cell: a text that
\* is one digit parses, any other text is coerced to NaN and then to 0
CleanNumber(c) ==
    CASE c.k = "nan" -> Num(0)
      [] c.k = "num" -> c
      [] c.k = "str" ->
           LET t == Strip(c.s)
           IN  IF Len(t) = 1 /\ \E d \in 0..9 : ToString(d) = t[1]
               THEN Num(CHOOSE d \in 0..9 : ToString(d) = t[1])
               ELSE Num(0)

\* the subsequence of the names of `wanted` that are columns
Available(wanted, cols) == SelectSeq(wanted, LAMBDA name : name \in Range(cols))

----------------------------------------------------------------------------
(* load_id_data                                                            *)

IdTextCols == <<Shifr_komplekta, Konstruktivnyi_element, Vid_rabot>>
IdNeededCols ==
    <<Shifr_komplekta, Konstruktivnyi_element, Vid_rabot, Obem_po_dokumentu>>

\* lines 267-271: the schema check on available_cols
IdSchemaInsufficient(available_cols) ==
    \/ Shifr_komplekta \notin Range(available_cols)
    \/ Obem_po_dokumentu \notin Range(available_cols)
    \/ Len(available_cols) < 2

\* lines 275-317: the cleaning of one row of df[available_cols]
IdCleanRow(cols, row) ==
    [j \in 1..Len(cols) |->
        IF cols[j] \in Range(IdTextCols) THEN CleanText(row[j])
        ELSE CleanNumber(row[j])]

\* the mask left at its initial value: every row is kept
IdKeepEveryRow(cols, row) == TRUE

\* lines 319-341: the mask over the key columns that are present
IdKeepRow(cols, row) ==
    \A j \in 1..Len(cols) :
        cols[j] \in Range(IdTextCols) => Strip(row[j].s) # <<>>

\* lines 347-353: the sample log reads all four columns of the first rows;
\* row[name] raises KeyError for a column that is absent
IdSampleLogRaises(cols, rows) ==
    Len(rows) > 0 /\ \E name \in Range(IdNeededCols) : name \notin Range(cols)

\* the columns the loop runs over and the column_mapping it builds
IdColumnMapping(sheet) ==
    LET cols0 == clean_dataframe_columns(sheet.headers)
    IN  [cols |-> cols0, mapping |-> id_column_mapping(cols0)]

load_id_data(sheet) ==
    IF sheet.rows = <<>> \/ sheet.headers = <<>> THEN NoneDf   \* df.empty
    ELSE
    LET cols0 == clean_dataframe_columns(sheet.headers)
        column_mapping == id_column_mapping(cols0)
        cols1 == clean_dataframe_columns(Rename(cols0, column_mapping))
        available_cols == Available(IdNeededCols, cols1)
    IN  IF IdSchemaInsufficient(available_cols) THEN NoneDf
        ELSE
        LET picked == Project(cols1, sheet.rows, available_cols)
            cleaned == [r \in 1..Len(picked) |-> IdCleanRow(available_cols, picked[r])]
            kept == SelectSeq(cleaned, LAMBDA row : IdKeepRow(available_cols, row))
        IN  IF IdSampleLogRaises(available_cols, kept)
            THEN NoneDf                      \* except Exception: return None
            ELSE DataFrame(available_cols, kept)

----------------------------------------------------------------------------
(* load_structure_data                                                     *)

StTextCols == <<Proekt, Marka, Konstrukciya, Vid_rabot_po_klassifikatoru, Ed_izm>>
StNumericCols == <<Proektnyi_obem, Vypolneno_v_nature, Prinyato_po_RFI>>

\* lines 420-426: the schema check
MinStructureCols == 3

StSchemaInsufficient(cols) == Len(Available(StTextCols, cols)) < MinStructureCols

\* lines 429-433: df[col] of a name that two columns carry after the rename
\* is a DataFrame: it has no .str, and pd.to_numeric rejects it
StCleanRaises(cols) ==
    \E name \in Range(StTextCols) \cup Range(StNumericCols) :
        Cardinality(Positions(cols, name)) > 1

StCleanRow(cols, row) ==
    [j \in 1..Len(cols) |->
        IF cols[j] \in Range(StTextCols) THEN CleanText(row[j])
        ELSE IF cols[j] \in Range(StNumericCols) THEN CleanNumber(row[j])
        ELSE row[j]]

StColumnMapping(sheet) ==
    LET cols0 == clean_dataframe_columns(sheet.headers)
    IN  [cols |-> cols0, mapping |-> st_column_mapping(cols0)]

load_structure_data(sheet) ==
    IF sheet.rows = <<>> \/ sheet.headers = <<>> THEN NoneDf   \* df.empty
    ELSE
    LET cols0 == clean_dataframe_columns(sheet.headers)
        column_mapping == st_column_mapping(cols0)
        cols1 == Rename(cols0, column_mapping)
    IN  IF StSchemaInsufficient(cols1) THEN NoneDf
        ELSE IF StCleanRaises(cols1) THEN NoneDf   \* except Exception: return None
        ELSE DataFrame(cols1,
                 [r \in 1..Len(sheet.rows) |-> StCleanRow(cols1, sheet.rows[r])])

----------------------------------------------------------------------------
(* create_pivot_table                                                      *)

RECURSIVE SumSeq(_)
SumSeq(s) == IF s = <<>> THEN 0 ELSE Head(s) + SumSeq(Tail(s))

\* the order of characters (their code points), for the sort of groupby
CharOrder ==
    <<"\t", " ", "0", "1", "2", "3", "4", "5", "6", "7", "8", "9",
      "A", "B", "_", "a", "b", "m", "n", "u", "|">>

CharCode(c) == CHOOSE i \in 1..Len(CharOrder) : CharOrder[i] = c

RECURSIVE TextLess(_, _)
TextLess(s, t) ==
    IF t = <<>> THEN FALSE
    ELSE IF s = <<>> THEN TRUE
    ELSE IF Head(s) = Head(t) THEN TextLess(Tail(s), Tail(t))
    ELSE CharCode(Head(s)) < CharCode(Head(t))

\* tuples of texts, compared left to right
RECURSIVE KeyLess(_, _)
KeyLess(k1, k2) ==
    IF k1 = <<>> \/ k2 = <<>> THEN FALSE
    ELSE IF Head(k1) = Head(k2) THEN KeyLess(Tail(k1), Tail(k2))
    ELSE TextLess(Head(k1), Head(k2))

RECURSIVE SortKeys(_)
SortKeys(S) ==
    IF S = {} THEN <<>>
    ELSE LET least == CHOOSE k \in S : \A other \in S \ {k} : KeyLess(k, other)
         IN  <<least>> \o SortKeys(S \ {least})

\* lines 454-464: the numeric columns that are absent are added with 0, the
\* grouping columns are stripped; structure_df itself is changed
PivotPrepared(df) ==
    LET added == SelectSeq(StNumericCols, LAMBDA name : name \notin Range(df.cols))
        cols == df.cols \o added
    IN  DataFrame(cols,
            [r \in 1..Len(df.rows) |->
                StCleanRow(cols, df.rows[r] \o [j \in 1..Len(added) |-> Num(0)])])

\* the groupby key of a row
GroupKey(cols, row) ==
    [j \in 1..Len(StTextCols) |-> Cell(cols, row, StTextCols[j]).s]

\* 'max' in the place of 'sum'
GroupMax(df, key, name) ==
    LET values == {Cell(df.cols, df.rows[r], name).n :
                      r \in {q \in 1..Len(df.rows) : GroupKey(df.cols, df.rows[q]) = key}}
    IN  CHOOSE v \in values : \A w \in values : w <= v

\* 'sum' of one numeric column over the rows of one group
GroupSum(df, key, name) ==
    SumSeq([r \in 1..Len(df.rows) |->
               IF GroupKey(df.cols, df.rows[r]) = key
               THEN Cell(df.cols, df.rows[r], name).n ELSE 0])

PivotCols == StTextCols \o StNumericCols \o <<Podtverzhdeno_ID>>

\* lines 447-452: all five grouping columns are required
PivotMissingCols(df) == {name \in Range(StTextCols) : name \notin Range(df.cols)}

create_pivot_table(structure) ==
    IF PivotMissingCols(structure) # {} THEN NoneDf
    ELSE
    LET df == PivotPrepared(structure)
        keys == SortKeys({GroupKey(df.cols, df.rows[r]) : r \in 1..Len(df.rows)})
    IN  DataFrame(PivotCols,
            [g \in 1..Len(keys) |->
                [j \in 1..Len(StTextCols) |-> Str(keys[g][j])]
                \o [j \in 1..Len(StNumericCols) |->
                       Num(GroupSum(df, keys[g], StNumericCols[j]))]
                \o <<Num(0)>>])

----------------------------------------------------------------------------
(* optimize_matching                                                       *)

Separator == <<"|", "|", "|">>                                     \* "|||"

\* lines 540-551: the composite key is the concatenation of the three
\* stripped texts with the separator between them
composite_key(a, b, c) ==
    Strip(a) \o Separator \o Strip(b) \o Separator \o Strip(c)

StructureKey(cols, row) ==
    composite_key(CleanText(Cell(cols, row, Proekt)).s,
                  CleanText(Cell(cols, row, Konstrukciya)).s,
                  CleanText(Cell(cols, row, Vid_rabot_po_klassifikatoru)).s)

IdKey(cols, row) ==
    composite_key(CleanText(Cell(cols, row, Shifr_komplekta)).s,
                  CleanText(Cell(cols, row, Konstruktivnyi_element)).s,
                  CleanText(Cell(cols, row, Vid_rabot)).s)

\* lines 512-517: the documentation rows with all three key texts non-empty
id_df_work(docs) ==
    SelectSeq(docs.rows,
              LAMBDA row : \A name \in Range(IdTextCols) :
                               CleanText(Cell(docs.cols, row, name)).s # <<>>)

\* lines 564-569: id_volume_dict, the sum of the volumes per composite key
IdVolumeKeys(docs) ==
    {IdKey(docs.cols, row) : row \in Range(id_df_work(docs))}

IdVolume(docs, key) ==
    LET work == id_df_work(docs)
    IN  SumSeq([r \in 1..Len(work) |->
                   IF IdKey(docs.cols, work[r]) = key
                   THEN Cell(docs.cols, work[r], Obem_po_dokumentu).n ELSE 0])

\* line 576: .map(id_volume_dict).fillna(0)
MappedVolume(docs, key) ==
    IF key \in IdVolumeKeys(docs) THEN IdVolume(docs, key) ELSE 0

\* lines 488-493
MissingIdCols(docs) == {name \in Range(IdNeededCols) : name \notin Range(docs.cols)}

\* the sum of a key credited once: to the first structure row that has
\* the key, the later ones are left at 0
optimize_matching_once(pivot, docs) ==
    IF MissingIdCols(docs) # {} THEN pivot
    ELSE
    LET at == ColumnIndex(pivot.cols, Podtverzhdeno_ID)
    IN  DataFrame(pivot.cols,
            [r \in 1..Len(pivot.rows) |->
                [pivot.rows[r] EXCEPT
                    ![at] = IF \E q \in 1..(r - 1) :
                                   StructureKey(pivot.cols, pivot.rows[q])
                                       = StructureKey(pivot.cols, pivot.rows[r])
                            THEN Num(0)
                            ELSE Num(MappedVolume(docs,
                                        StructureKey(pivot.cols, pivot.rows[r])))]])

\* missing documentation columns taken as a failure of the run
optimize_matching_strict(pivot, docs) ==
    IF MissingIdCols(docs) # {} THEN NoneDf
    ELSE
    LET at == ColumnIndex(pivot.cols, Podtverzhdeno_ID)
    IN  DataFrame(pivot.cols,
            [r \in 1..Len(pivot.rows) |->
                [pivot.rows[r] EXCEPT
                    ![at] = Num(MappedVolume(docs,
                                    StructureKey(pivot.cols, pivot.rows[r])))]])

\* the join as an inner join: only the rows whose key has a documented sum
optimize_matching_inner(pivot, docs) ==
    IF MissingIdCols(docs) # {} THEN pivot
    ELSE
    LET at == ColumnIndex(pivot.cols, Podtverzhdeno_ID)
        hit == SelectSeq(pivot.rows,
                   LAMBDA row : StructureKey(pivot.cols, row) \in IdVolumeKeys(docs))
    IN  DataFrame(pivot.cols,
            [r \in 1..Len(hit) |->
                [hit[r] EXCEPT
                    ![at] = Num(MappedVolume(docs, StructureKey(pivot.cols, hit[r])))]])

optimize_matching(pivot, docs) ==
    IF MissingIdCols(docs) # {} THEN pivot
    ELSE
    LET at == ColumnIndex(pivot.cols, Podtverzhdeno_ID)
    IN  DataFrame(pivot.cols,
            [r \in 1..Len(pivot.rows) |->
                [pivot.rows[r] EXCEPT
                    ![at] = Num(MappedVolume(docs,
                                    StructureKey(pivot.cols, pivot.rows[r])))]])

----------------------------------------------------------------------------
(* create_final_report                                                     *)

\* lines 632-639: the display names
DisplayName(name) ==
    CASE name = Vid_rabot_po_klassifikatoru -> <<"Vid rabot po klassifikatoru">>
      [] name = Ed_izm -> <<"Ed. izm.">>
      [] name = Proektnyi_obem -> <<"Proektnyi obem">>
      [] name = Vypolneno_v_nature -> <<"Vypolneno v nature">>
      [] name = Prinyato_po_RFI -> <<"Prinyato po RFI (tekhnadzor)">>
      [] name = Podtverzhdeno_ID -> <<"Podtverzhdeno ID">>
      [] OTHER -> name

\* lines 641-645
column_order == [j \in 1..Len(PivotCols) |-> DisplayName(PivotCols[j])]

create_final_report(pivot) ==
    LET renamed == [j \in 1..Len(pivot.cols) |-> DisplayName(pivot.cols[j])]
        existing_columns == Available(column_order, renamed)
    IN  DataFrame(existing_columns, Project(renamed, pivot.rows, existing_columns))

----------------------------------------------------------------------------
(* process_files, from the first load on: one action per stage.  The       *)
(* processor has no progress window here (progress_window is None), so     *)
(* check_cancelled never raises and log only prints; the runs that         *)
(* start_processing starts, with their windows, are further below.         *)

LoadStructure ==
    /\ pc = "load_structure"
    /\ structure_df' = load_structure_data(st_sheet)
    /\ st_mapping' = IF st_sheet.rows = <<>> \/ st_sheet.headers = <<>>
                     THEN st_mapping ELSE StColumnMapping(st_sheet)
    /\ IF structure_df'.ok
       THEN pc' = "load_id" /\ exit' = exit
       ELSE pc' = "done" /\ exit' = "structure_none"
    /\ UNCHANGED <<st_sheet, id_sheet, id_mapping, id_df, pivot_df, result_df,
                   final_report, report_file, ntVars, uiVars>>

LoadId ==
    /\ pc = "load_id"
    /\ id_df' = load_id_data(id_sheet)
    /\ id_mapping' = IF id_sheet.rows = <<>> \/ id_sheet.headers = <<>>
                     THEN id_mapping ELSE IdColumnMapping(id_sheet)
    /\ IF id_df'.ok
       THEN pc' = "pivot" /\ exit' = exit
       ELSE pc' = "done" /\ exit' = "id_none"
    /\ UNCHANGED <<st_sheet, id_sheet, st_mapping, structure_df, pivot_df,
                   result_df, final_report, report_file, ntVars, uiVars>>

CreatePivot ==
    /\ pc = "pivot"
    /\ pivot_df' = create_pivot_table(structure_df)
    /\ IF pivot_df'.ok
       THEN /\ pc' = "match"
            /\ exit' = exit
            /\ structure_df' = PivotPrepared(structure_df)
       ELSE /\ pc' = "done"
            /\ exit' = "pivot_none"
            /\ structure_df' = structure_df
    /\ UNCHANGED <<st_sheet, id_sheet, st_mapping, id_mapping, id_df,
                   result_df, final_report, report_file, ntVars, uiVars>>

\* optimize_matching writes the column into pivot_df and returns pivot_df
OptimizeMatching ==
    /\ pc = "match"
    /\ result_df' = optimize_matching(pivot_df, id_df)
    /\ pivot_df' = result_df'
    /\ pc' = "report"
    /\ UNCHANGED <<exit, st_sheet, id_sheet, st_mapping, id_mapping,
                   structure_df, id_df, final_report, report_file, ntVars, uiVars>>

CreateFinalReport ==
    /\ pc = "report"
    /\ final_report' = create_final_report(result_df)
    /\ pc' = "write"
    /\ UNCHANGED <<exit, st_sheet, id_sheet, st_mapping, id_mapping,
                   structure_df, id_df, pivot_df, result_df, report_file, ntVars, uiVars>>

\* final_report.to_excel: the file is written, or the write raises
WriteReport ==
    /\ pc = "write"
    /\ \E written \in BOOLEAN :
          /\ report_file' = IF written THEN final_report ELSE report_file
          /\ exit' = IF written THEN "saved" ELSE "save_failed"
    /\ pc' = "done"
    /\ UNCHANGED <<st_sheet, id_sheet, st_mapping, id_mapping, structure_df,
                   id_df, pivot_df, result_df, final_report, ntVars, uiVars>>

Next ==
    \/ LoadStructure
    \/ LoadId
    \/ CreatePivot
    \/ OptimizeMatching
    \/ CreateFinalReport
    \/ WriteReport

----------------------------------------------------------------------------
(* Inputs.                                                                 *)

RECURSIVE SeqsUpTo(_, _)
SeqsUpTo(S, n) ==
    IF n = 0 THEN {<<>>}
    ELSE LET shorter == SeqsUpTo(S, n - 1)
         IN  shorter \cup {Append(q, c) : q \in shorter, c \in S}

\* a header row that classifies completely, for each file
StFullHeaders ==
    <<  <<"Proekt">>,                    \* "Проект"
        <<"Marka">>,                     \* "Марка"
        <<"Konstrukciya">>,              \* "Конструкция"
        <<"vid rabot">>,                 \* "вид работ"
        <<"ed. izm">>,                   \* "ед. изм"
        <<"Proekt", "nyi obem">>  >>     \* "Проектный объем"

IdFullHeaders ==
    <<  <<"shifr", "y ", "komplekt", "ov", " ", "rd", " / ",
          "detailed design", " documents sections">>,
        <<"konstruk", "tiv", "nyi ", "ehlement">>,
        <<"vid rabot", " / ", "type of", " ", "work">>,
        <<"obem po dokumentu", " / ", "Work", " scopes">>  >>

\* the data rows of the two sheets under those headers
MaxStructureRows == 2
MaxIdRows == 2

TextA == <<"a">>
TextASepA == <<"a">> \o Separator \o <<"a">>

StRow(p, m, k) == <<Str(p), m, k, Str(TextA), Str(<<"u">>), Num(1)>>
IdRow(e, v) == <<Str(TextA), Str(e), Str(TextA), Num(v)>>

StDataRows ==
    {StRow(p, m, Str(TextA)) :
        p \in {TextA, TextASepA}, m \in {Str(<<"m">>), Str(<<" ">>)}}
    \cup {StRow(TextA, Str(<<"m">>), NaN)}

IdDataRows ==
    {IdRow(e, 1) : e \in {TextA, TextASepA, <<" ">>}} \cup {IdRow(TextA, 2)}

\* the processor after __init__: no window, no thread
UiIdle ==
    /\ progress_window = 0
    /\ current_folder = "cwd"
    /\ windows = <<>>
    /\ runs = <<>>
    /\ checks = <<>>

NtIdle ==
    /\ ntStage = "idle"
    /\ ntText = NaN
    /\ ntOnce = <<>>
    /\ ntTwice = <<>>

NoMapping == [cols |-> <<>>, mapping |-> <<>>]

PfStart ==
    /\ pc = "load_structure"
    /\ exit = ""
    /\ st_mapping = NoMapping
    /\ id_mapping = NoMapping
    /\ structure_df = NoneDf
    /\ id_df = NoneDf
    /\ pivot_df = NoneDf
    /\ result_df = NoneDf
    /\ final_report = NoneDf
    /\ report_file = NoneDf

Init ==
    /\ st_sheet \in {Sheet(StFullHeaders, rows) :
                        rows \in SeqsUpTo(StDataRows, MaxStructureRows)}
    /\ id_sheet \in {Sheet(IdFullHeaders, rows) :
                        rows \in SeqsUpTo(IdDataRows, MaxIdRows)}
    /\ PfStart
    /\ NtIdle
    /\ UiIdle

vars == <<pfVars, ntVars, uiVars>>

Spec == Init /\ [][Next]_vars

----------------------------------------------------------------------------
(* Header rows of up to MaxCols columns over the headers below, with no    *)
(* data row or one row of equal cells.                                     *)

MaxCols == 3

IdHeaderChoices ==
    {   <<"obem po dokumentu", " / ", "Work", " scopes">>,
            \* "Объем по документу / Work scopes"
        <<"obyom po dokumentu", " / ", "work", " scopes">>,
            \* "объём по документу / work scopes"
        <<"obem po dokumentu">>,
            \* "объем по документу": no scope qualifier
        <<"shifr", "y ", "komplekt", "ov", " ", "rd", " / ",
          "detailed design", " documents sections">>,
            \* "шифры комплектов рд / detailed design documents sections"
        <<"shifr", " ", "komplekt", "a ", "rd">>,
            \* "шифр комплекта рд"
        <<"konstruk", "tiv", "nyi ", "ehlement">>,
            \* "конструктивный элемент"
        <<"construction", " ", "work", "s">>,
            \* "construction works"
        <<"vid rabot", " / ", "type of", " ", "work">>,
            \* "вид работ / type of work"
        <<"primechanie">>  }
            \* "примечание": no keyword

StHeaderChoices ==
    {   <<"Proekt">>,                    \* "Проект"
        <<"Proekt", "nyi obem">>,        \* "Проектный объем"
        <<"shifr", " ", "proekt", "a">>, \* "шифр проекта"
        <<"Marka">>,                     \* "Марка"
        <<"Konstrukciya">>,              \* "Конструкция"
        <<"vid rabot">>,                 \* "вид работ"
        <<"ed. izm">>,                   \* "ед. изм"
        <<"vypolneno v nature">>,        \* "выполнено в натуре"
        <<"primechanie">>  }             \* "примечание": no keyword

\* no data row, or one row whose cells are all the same value
UniformRows(width) ==
    {<<>>} \cup {<<[j \in 1..width |-> c]>> : c \in {Str(TextA), NaN, Num(1)}}

LoadSheets(choices) ==
    {Sheet(headers, rows) :
        headers \in SeqsUpTo(choices, MaxCols),
        rows \in UNION {UniformRows(Len(h)) : h \in SeqsUpTo(choices, MaxCols)}}

InitLoad ==
    /\ \/ /\ id_sheet \in {s \in LoadSheets(IdHeaderChoices) :
                                \A r \in Range(s.rows) : Len(r) = Len(s.headers)}
          /\ st_sheet = Sheet(StFullHeaders,
                              <<[j \in 1..Len(StFullHeaders) |-> Str(TextA)]>>)
       \/ /\ st_sheet \in {s \in LoadSheets(StHeaderChoices) :
                                \A r \in Range(s.rows) : Len(r) = Len(s.headers)}
          /\ id_sheet = Sheet(IdFullHeaders,
                              <<[j \in 1..Len(IdFullHeaders) |-> Str(TextA)]>>)
    /\ PfStart
    /\ NtIdle
    /\ UiIdle

SpecLoad == InitLoad /\ [][Next]_vars

----------------------------------------------------------------------------
(* Driver of normalize_text: any text up to MaxTextLen characters over     *)
(* TextChars, or a value that is not a str.                                *)

MaxTextLen == 3
TextChars == {"a", "A", " ", "\t", ".", "_"}

NtInputs == {Str(s) : s \in SeqsUpTo(TextChars, MaxTextLen)} \cup {NaN, Num(1)}

PfIdle ==
    /\ pc = "idle"
    /\ exit = ""
    /\ st_sheet = Sheet(<<>>, <<>>)
    /\ id_sheet = Sheet(<<>>, <<>>)
    /\ st_mapping = NoMapping
    /\ id_mapping = NoMapping
    /\ structure_df = NoneDf
    /\ id_df = NoneDf
    /\ pivot_df = NoneDf
    /\ result_df = NoneDf
    /\ final_report = NoneDf
    /\ report_file = NoneDf

NtInit ==
    /\ ntStage = "in"
    /\ ntText \in NtInputs
    /\ ntOnce = <<>>
    /\ ntTwice = <<>>
    /\ PfIdle
    /\ UiIdle

NormalizeOnce ==
    /\ ntStage = "in"
    /\ ntOnce' = normalize_text(ntText)
    /\ ntStage' = "once"
    /\ UNCHANGED <<ntText, ntTwice, pfVars, uiVars>>

NormalizeTwice ==
    /\ ntStage = "once"
    /\ ntTwice' = normalize_text(Str(ntOnce))
    /\ ntStage' = "twice"
    /\ UNCHANGED <<ntText, ntOnce, pfVars, uiVars>>

NtNext == NormalizeOnce \/ NormalizeTwice

SpecText == NtInit /\ [][NtNext]_vars

----------------------------------------------------------------------------
(* start_processing and the threads of process_files.                      *)
(*                                                                         *)
(* A folder is the list of its file names and the sheets of the first      *)
(* file of each role.  A file name is a sequence of fragments.             *)

IdFilePrefix == "ispolnitelnaya dokumentaciya ot"   \* 'Исполнительная документация от'
StFilePrefix == "struktura obekta"                  \* 'Структура объекта'

\* id_pattern.match(f) and structure_pattern.match(f), re.IGNORECASE
PatternMatches(prefix, f) ==
    /\ Len(f) >= 2
    /\ Lower(f)[1] = prefix
    /\ Lower(f)[Len(f)] = ".xlsx"

find_files_by_pattern(files) ==
    [id_files |-> SelectSeq(files, LAMBDA f : PatternMatches(IdFilePrefix, f)),
     structure_files |-> SelectSeq(files, LAMBDA f : PatternMatches(StFilePrefix, f))]

IdFileName == <<IdFilePrefix, " 01.02", ".XLSX">>
StFileName == <<StFilePrefix, " 1", ".xlsx">>
OldStFileName == <<StFilePrefix, " 1", ".xls">>

GoodStSheet == Sheet(StFullHeaders, <<StRow(TextA, Str(<<"m">>), Str(TextA))>>)
GoodIdSheet == Sheet(IdFullHeaders, <<IdRow(TextA, 1)>>)
\* three of the five grouping columns
ThinStSheet ==
    Sheet(<<StFullHeaders[1], StFullHeaders[2], StFullHeaders[3]>>,
          <<<<Str(TextA), Str(TextA), Str(TextA)>>>>)
\* the volume column alone
ThinIdSheet == Sheet(<<IdFullHeaders[4]>>, <<<<Num(1)>>>>)

NoFolder == [name |-> "", files |-> <<>>, st_sheet |-> Sheet(<<>>, <<>>),
             id_sheet |-> Sheet(<<>>, <<>>)]

Folder(name, files, st, id) ==
    [name |-> name, files |-> files, st_sheet |-> st, id_sheet |-> id]

Folders ==
    { Folder("full", <<IdFileName, StFileName>>, GoodStSheet, GoodIdSheet),
      Folder("no_id", <<StFileName>>, GoodStSheet, NoFolder.id_sheet),
      Folder("no_structure", <<IdFileName, OldStFileName>>, NoFolder.st_sheet, GoodIdSheet),
      Folder("empty_structure", <<StFileName, IdFileName>>, NoFolder.st_sheet, GoodIdSheet),
      Folder("thin_structure", <<IdFileName, StFileName>>, ThinStSheet, GoodIdSheet),
      Folder("thin_id", <<IdFileName, StFileName>>, GoodStSheet, ThinIdSheet) }

\* the number of start_processing calls
MaxRuns == 2

\* a thread that has just been started
NewRun ==
    [pc |-> "select_folder", exit |-> "", folder |-> NoFolder,
     trace |-> <<>>, written |-> 0, failures |-> {}]

\* the locals of process_files, of the thread t
RunStructure(t) == load_structure_data(runs[t].folder.st_sheet)
RunId(t) == load_id_data(runs[t].folder.id_sheet)
RunPivot(t) == create_pivot_table(RunStructure(t))
RunResult(t) == optimize_matching(RunPivot(t), RunId(t))
RunReport(t) == create_final_report(RunResult(t))

\* check_cancelled raises
check_cancelled ==
    progress_window # 0 /\ windows[progress_window].is_cancelled

\* progress_window is a window that has been destroyed: log and
\* update_progress raise TclError
WindowGone ==
    progress_window # 0 /\ ~windows[progress_window].open

\* the two loaders alone begin with check_cancelled
PolledLoads == {"load_structure", "load_id"}

\* the stages that begin with check_cancelled
PolledStages == {"load_structure", "load_id", "pivot", "match", "report"}

\* process_files ends: by return, or in its except clause
Ended(t, how) == [runs[t] EXCEPT !.pc = "done", !.exit = how]
Failed(t, how) ==
    [runs[t] EXCEPT !.pc = "done", !.exit = how, !.failures = @ \cup {how}]
Executed(t, stage) == [runs[t] EXCEPT !.trace = Append(@, stage)]

\* one stage of the thread t: update_progress raises if the window is gone
\* (the except clause logs, log raises again, the thread dies of it); then
\* the stage polls; then it runs, to the record `after`
RunStage(t, stage, after) ==
    /\ t \in 1..Len(runs)
    /\ runs[t].pc = stage
    /\ runs' = [runs EXCEPT ![t] =
                  IF WindowGone THEN Ended(t, "raised")
                  ELSE IF stage \in PolledStages /\ check_cancelled
                       THEN Ended(t, "cancelled")
                       ELSE after]

RunSelectFolder(t) ==
    /\ \E f \in Folders \cup {NoFolder} :
          /\ RunStage(t, "select_folder",
                 IF f = NoFolder THEN Ended(t, "no_folder")
                 ELSE [runs[t] EXCEPT !.pc = "find_files", !.folder = f])
          /\ current_folder' = IF WindowGone \/ f = NoFolder
                               THEN current_folder ELSE f.name
    /\ UNCHANGED <<progress_window, windows, checks, pfVars, ntVars>>

RunFindFiles(t) ==
    /\ RunStage(t, "find_files",
           LET found == find_files_by_pattern(runs[t].folder.files)
           IN  IF found.id_files = <<>> THEN Failed(t, "no_id_files")
               ELSE IF found.structure_files = <<>> THEN Failed(t, "no_structure_files")
               ELSE [runs[t] EXCEPT !.pc = "load_structure"])
    /\ UNCHANGED <<progress_window, current_folder, windows, checks, pfVars, ntVars>>

RunLoadStructure(t) ==
    /\ RunStage(t, "load_structure",
           IF RunStructure(t).ok
           THEN [Executed(t, "load_structure") EXCEPT !.pc = "load_id"]
           ELSE [Executed(t, "load_structure") EXCEPT
                    !.pc = "done", !.exit = "structure_none",
                    !.failures = @ \cup {"structure_none"}])
    /\ UNCHANGED <<progress_window, current_folder, windows, checks, pfVars, ntVars>>

\* process_files without 'if id_df is None: return'
RunLoadIdUnchecked(t) ==
    /\ RunStage(t, "load_id", [Executed(t, "load_id") EXCEPT !.pc = "pivot"])
    /\ UNCHANGED <<progress_window, current_folder, windows, checks, pfVars, ntVars>>

RunLoadId(t) ==
    /\ RunStage(t, "load_id",
           IF RunId(t).ok
           THEN [Executed(t, "load_id") EXCEPT !.pc = "pivot"]
           ELSE [Executed(t, "load_id") EXCEPT
                    !.pc = "done", !.exit = "id_none",
                    !.failures = @ \cup {"id_none"}])
    /\ UNCHANGED <<progress_window, current_folder, windows, checks, pfVars, ntVars>>

RunCreatePivot(t) ==
    /\ RunStage(t, "pivot",
           IF RunPivot(t).ok
           THEN [Executed(t, "pivot") EXCEPT !.pc = "match"]
           ELSE [Executed(t, "pivot") EXCEPT
                    !.pc = "done", !.exit = "pivot_none",
                    !.failures = @ \cup {"pivot_none"}])
    /\ UNCHANGED <<progress_window, current_folder, windows, checks, pfVars, ntVars>>

RunOptimizeMatching(t) ==
    /\ RunStage(t, "match", [Executed(t, "match") EXCEPT !.pc = "report"])
    /\ UNCHANGED <<progress_window, current_folder, windows, checks, pfVars, ntVars>>

RunCreateFinalReport(t) ==
    /\ RunStage(t, "report", [Executed(t, "report") EXCEPT !.pc = "write"])
    /\ UNCHANGED <<progress_window, current_folder, windows, checks, pfVars, ntVars>>

\* to_excel writes the file or raises; the log that follows raises if the
\* window is gone
RunWriteReport(t) ==
    /\ t \in 1..Len(runs)
    /\ runs[t].pc = "write"
    /\ \E saved \in BOOLEAN :
          runs' = [runs EXCEPT ![t] =
                     [Executed(t, "write") EXCEPT
                         !.pc = "done",
                         !.written = IF saved THEN @ + 1 ELSE @,
                         !.exit = IF WindowGone THEN "raised"
                                  ELSE IF saved THEN "saved" ELSE "save_failed",
                         !.failures = IF saved \/ WindowGone THEN @
                                      ELSE @ \cup {"save_failed"}]]
    /\ UNCHANGED <<progress_window, current_folder, windows, checks, pfVars, ntVars>>

\* the callbacks of the main thread run one at a time
NoCallbackRunning == \A u \in 1..Len(checks) : checks[u].state # "closing"

\* start_processing: a new window, a new thread, check_thread scheduled on
\* the new window
StartProcessing ==
    /\ Len(runs) < MaxRuns
    /\ NoCallbackRunning
    /\ windows' = Append(windows, [open |-> TRUE, is_cancelled |-> FALSE])
    /\ progress_window' = Len(windows) + 1
    /\ runs' = Append(runs, NewRun)
    /\ checks' = Append(checks, [state |-> "pending", on |-> Len(windows) + 1])
    /\ UNCHANGED <<current_folder, pfVars, ntVars>>

\* the user who starts a run only when no run is in progress
ProcessorIdle ==
    /\ progress_window = 0
    /\ \A t \in 1..Len(runs) : runs[t].pc = "done"

StartWhenIdle == ProcessorIdle /\ StartProcessing

\* ProgressWindow.cancel: the button of the window w
Cancel(w) ==
    /\ w \in 1..Len(windows)
    /\ windows[w].open
    /\ ~windows[w].is_cancelled
    /\ NoCallbackRunning
    /\ windows' = [windows EXCEPT ![w].is_cancelled = TRUE]
    /\ UNCHANGED <<progress_window, current_folder, runs, checks, pfVars, ntVars>>

\* check_thread of the start t, called by the window it was scheduled on
\* (a destroyed window calls nothing).  While the thread is alive it is
\* scheduled again on self.progress_window.root; then it closes
\* self.progress_window.  Either raises when progress_window is None.
CheckThread(t) ==
    /\ t \in 1..Len(checks)
    /\ checks[t].state = "pending"
    /\ windows[checks[t].on].open
    /\ NoCallbackRunning
    /\ IF progress_window = 0
       THEN /\ checks' = [checks EXCEPT ![t].state = "raised"]
            /\ windows' = windows
       ELSE IF runs[t].pc # "done"
            THEN /\ checks' = [checks EXCEPT ![t].on = progress_window]
                 /\ windows' = windows
            ELSE /\ checks' = [checks EXCEPT ![t].state = "closing"]
                 /\ windows' = [windows EXCEPT ![progress_window].open = FALSE]
    /\ UNCHANGED <<progress_window, current_folder, runs, pfVars, ntVars>>

\* the second statement of the else branch: self.progress_window = None
CheckThreadReset(t) ==
    /\ t \in 1..Len(checks)
    /\ checks[t].state = "closing"
    /\ progress_window' = 0
    /\ checks' = [checks EXCEPT ![t].state = "done"]
    /\ UNCHANGED <<current_folder, windows, runs, pfVars, ntVars>>

ThreadStep(t) ==
    \/ RunSelectFolder(t)
    \/ RunFindFiles(t)
    \/ RunLoadStructure(t)
    \/ RunLoadId(t)
    \/ RunCreatePivot(t)
    \/ RunOptimizeMatching(t)
    \/ RunCreateFinalReport(t)
    \/ RunWriteReport(t)

UiInit == PfIdle /\ NtIdle /\ UiIdle

\* runs one after the other
RunNext ==
    \/ StartWhenIdle
    \/ \E w \in 1..MaxRuns : Cancel(w)
    \/ \E t \in 1..MaxRuns : ThreadStep(t)
    \/ \E t \in 1..MaxRuns : CheckThread(t)
    \/ \E t \in 1..MaxRuns : CheckThreadReset(t)

SpecRun == UiInit /\ [][RunNext]_vars

\* start_processing at any time: the button stays enabled during a run
UiNext ==
    \/ StartProcessing
    \/ \E w \in 1..MaxRuns : Cancel(w)
    \/ \E t \in 1..MaxRuns : ThreadStep(t)
    \/ \E t \in 1..MaxRuns : CheckThread(t)
    \/ \E t \in 1..MaxRuns : CheckThreadReset(t)

SpecUi == UiInit /\ [][UiNext]_vars

----------------------------------------------------------------------------
(* What the claims speak of.                                               *)

\* optimize_matching has run
Matched == pc \in {"report", "write"} \/ (pc = "done" /\ exit \in {"saved", "save_failed"})

\* load_id_data has run on a sheet that is not empty
IdLoaded ==
    /\ id_sheet.rows # <<>> /\ id_sheet.headers # <<>>
    /\ pc \in {"pivot", "match", "report", "write"}
       \/ (pc = "done" /\ exit # "structure_none")

\* load_structure_data has run on a sheet that is not empty
StLoaded ==
    /\ st_sheet.rows # <<>> /\ st_sheet.headers # <<>>
    /\ pc # "load_structure"

\* the key of a structure row and of a documentation row as a triple of
\* trimmed texts
StructureTriple(cols, row) ==
    <<Strip(Cell(cols, row, Proekt).s),
      Strip(Cell(cols, row, Konstrukciya).s),
      Strip(Cell(cols, row, Vid_rabot_po_klassifikatoru).s)>>

IdTriple(cols, row) ==
    <<Strip(Cell(cols, row, Shifr_komplekta).s),
      Strip(Cell(cols, row, Konstruktivnyi_element).s),
      Strip(Cell(cols, row, Vid_rabot).s)>>

\* the sum of the documented volume over the rows of the documentation
\* table whose triple is the given one
VolumeOfTriple(triple) ==
    SumSeq([d \in 1..Len(id_df.rows) |->
               IF IdTriple(id_df.cols, id_df.rows[d]) = triple
               THEN Cell(id_df.cols, id_df.rows[d], Obem_po_dokumentu).n ELSE 0])

Confirmed(cols, row) == Cell(cols, row, Podtverzhdeno_ID).n

\* the place of a target name in the order of the rules
RuleIndex(order, field) == CHOOSE k \in 1..Len(order) : order[k] = field

\* the fields that column_mapping has assigned
Assigned(m) == Range(m.mapping) \ {NoField}

----------------------------------------------------------------------------
(* C1: after optimize_matching every structure row's ConfirmedByDocs is    *)
(* the sum of DocumentedVolume over exactly the documentation rows whose   *)
(* triple (PackageCode, StructuralElement, WorkType) equals the row's      *)
(* (Project, Component, ClassifiedWorkType), and 0 when there is none.     *)
C1_ConfirmedIsSumOverEqualTriples ==
    (Matched /\ MissingIdCols(id_df) = {}) =>
        \A r \in 1..Len(result_df.rows) :
            Confirmed(result_df.cols, result_df.rows[r])
                = VolumeOfTriple(StructureTriple(result_df.cols, result_df.rows[r]))

(* C2: the join neither duplicates nor loses structure rows: the table     *)
(* optimize_matching returns has as many rows as the aggregated table it   *)
(* was given, each with the same grouping texts, and the report built from *)
(* it has as many rows again.                                              *)
C2_OneRowPerStructureRow ==
    [][ /\ pc = "match" =>
             /\ Len(result_df'.rows) = Len(pivot_df.rows)
             /\ \A r \in 1..Len(pivot_df.rows) :
                    GroupKey(result_df'.cols, result_df'.rows[r])
                        = GroupKey(pivot_df.cols, pivot_df.rows[r])
        /\ pc = "report" => Len(final_report'.rows) = Len(result_df.rows) ]_vars

\* a report of two structure rows, one confirmed by two documentation rows
\* and one that no documentation row confirms
C2_Witness ==
    /\ pc = "write"
    /\ Len(final_report.rows) = 2
    /\ Len(id_df.rows) = 2
    /\ \E r, q \in 1..Len(result_df.rows) :
          /\ Confirmed(result_df.cols, result_df.rows[r]) = 3
          /\ Confirmed(result_df.cols, result_df.rows[q]) = 0

(* C3: two composite keys compare equal in the matcher if and only if all  *)
(* three of their trimmed texts are pairwise equal, also for texts that    *)
(* contain the separator "|||".                                            *)
C3_KeysEqualIffTriplesEqual ==
    (Matched /\ MissingIdCols(id_df) = {}) =>
        \A r \in 1..Len(result_df.rows) :
            \A d \in Range(id_df_work(id_df)) :
                (StructureKey(result_df.cols, result_df.rows[r]) = IdKey(id_df.cols, d))
                    <=> (StructureTriple(result_df.cols, result_df.rows[r])
                            = IdTriple(id_df.cols, d))

----------------------------------------------------------------------------
(* C4: text normalization is idempotent: normalizing the normalized text   *)
(* gives the normalized text again, for every text value.                  *)
C4_NormalizeIdempotent ==
    ntStage = "twice" => ntTwice = ntOnce

----------------------------------------------------------------------------
(* C5: in both classifiers each canonical field is given to at most one    *)
(* header, the header that holds a field passes the field's keyword test,  *)
(* and every earlier header that passes the test was taken by a rule of    *)
(* higher priority: the holder is the first candidate, and no later        *)
(* header replaces it.                                                     *)
AtMostOneHeaderPerField(m) ==
    \A i, j \in 1..Len(m.mapping) :
        (i # j /\ m.mapping[i] # NoField) => m.mapping[i] # m.mapping[j]

IdFirstCandidateHolds(m) ==
    \A i \in 1..Len(m.mapping) :
        m.mapping[i] # NoField =>
            /\ IdKeywordTest(m.mapping[i], Lower(m.cols[i]))
            /\ \A j \in 1..(i - 1) :
                  IdKeywordTest(m.mapping[i], Lower(m.cols[j])) =>
                      /\ m.mapping[j] # NoField
                      /\ RuleIndex(IdRuleOrder, m.mapping[j])
                            < RuleIndex(IdRuleOrder, m.mapping[i])

StFirstCandidateHolds(m) ==
    \A i \in 1..Len(m.mapping) :
        m.mapping[i] # NoField =>
            /\ StKeywordTest(m.mapping[i], Lower(m.cols[i]))
            /\ \A j \in 1..(i - 1) :
                  StKeywordTest(m.mapping[i], Lower(m.cols[j])) =>
                      /\ m.mapping[j] # NoField
                      /\ RuleIndex(StRuleOrder, m.mapping[j])
                            < RuleIndex(StRuleOrder, m.mapping[i])

C5_FirstCandidateKeepsField ==
    /\ AtMostOneHeaderPerField(id_mapping)
    /\ IdFirstCandidateHolds(id_mapping)
    /\ AtMostOneHeaderPerField(st_mapping)
    /\ StFirstCandidateHolds(st_mapping)

\* two headers that pass the test of one field: the first holds it, the
\* second does not
C5_Witness ==
    \E i, j \in 1..Len(id_mapping.mapping) :
        /\ i < j
        /\ id_mapping.mapping[i] = Obem_po_dokumentu
        /\ IdKeywordTest(Obem_po_dokumentu, Lower(id_mapping.cols[j]))
        /\ id_mapping.mapping[j] # Obem_po_dokumentu

(* C6: a later header whose highest-priority matching rule targets a field *)
(* that is already assigned is left unmapped: it is given no field of      *)
(* lower priority either.                                                  *)
IdHighestRule(n) ==
    IF \E k \in 1..Len(IdRuleOrder) : IdKeywordTest(IdRuleOrder[k], n)
    THEN IdRuleOrder[CHOOSE k \in 1..Len(IdRuleOrder) :
            /\ IdKeywordTest(IdRuleOrder[k], n)
            /\ \A h \in 1..(k - 1) : ~IdKeywordTest(IdRuleOrder[h], n)]
    ELSE NoField

StHighestRule(n) ==
    IF \E k \in 1..Len(StRuleOrder) : StKeywordTest(StRuleOrder[k], n)
    THEN StRuleOrder[CHOOSE k \in 1..Len(StRuleOrder) :
            /\ StKeywordTest(StRuleOrder[k], n)
            /\ \A h \in 1..(k - 1) : ~StKeywordTest(StRuleOrder[h], n)]
    ELSE NoField

C6_LaterCandidateLeftUnmapped ==
    /\ \A j \in 1..Len(id_mapping.mapping) :
          LET field == IdHighestRule(Lower(id_mapping.cols[j]))
          IN  (field # NoField /\ \E i \in 1..(j - 1) : id_mapping.mapping[i] = field)
                  => id_mapping.mapping[j] = NoField
    /\ \A j \in 1..Len(st_mapping.mapping) :
          LET field == StHighestRule(Lower(st_mapping.cols[j]))
          IN  (field # NoField /\ \E i \in 1..(j - 1) : st_mapping.mapping[i] = field)
                  => st_mapping.mapping[j] = NoField

(* C7: the keyword tests of the structure schema are mutually exclusive    *)
(* (a header passes at most one), and a header with the design-volume      *)
(* phrase is given PlannedVolume, never Project.                           *)
C7_StructureTestsExclusive ==
    \A j \in 1..Len(st_mapping.mapping) :
        LET n == Lower(st_mapping.cols[j])
        IN  /\ Cardinality({k \in 1..Len(StRuleOrder) :
                               StKeywordTest(StRuleOrder[k], n)}) <= 1
            /\ StKeywordTest(Proektnyi_obem, n) => st_mapping.mapping[j] # Proekt

(* C8: for a documentation sheet that is not empty, load_id_data returns   *)
(* None exactly when PackageCode is unassigned, or DocumentedVolume is     *)
(* unassigned, or fewer than 2 of the four fields are assigned.            *)
C8_IdLoadFailsExactlyOnSchema ==
    IdLoaded =>
        (~id_df.ok <=>
            \/ Shifr_komplekta \notin Assigned(id_mapping)
            \/ Obem_po_dokumentu \notin Assigned(id_mapping)
            \/ Cardinality(Assigned(id_mapping)) < 2)

(* C9: a run is aborted without a report for an insufficient structure     *)
(* schema only when fewer than 3 of the 5 identifying fields were          *)
(* assigned, over load_structure_data and then create_pivot_table.         *)
AbortedForStructureSchema ==
    \/ exit = "pivot_none"
    \/ /\ exit = "structure_none"
       /\ StLoaded
       /\ StSchemaInsufficient(Rename(st_mapping.cols, st_mapping.mapping))

C9_ThreeOfFiveSuffice ==
    AbortedForStructureSchema =>
        Cardinality(Assigned(st_mapping) \cap Range(StTextCols)) < MinStructureCols

----------------------------------------------------------------------------
(* C10: structure rows with an empty mandatory field are dropped: no row   *)
(* of the loaded structure table has an empty Project, Mark, Component,    *)
(* ClassifiedWorkType or Unit after trimming, and no row of the aggregated *)
(* table, of the joined table or of the report has one either.             *)
NoEmptyField(df, names) ==
    df.ok =>
        \A r \in 1..Len(df.rows) :
            \A j \in 1..Len(names) :
                names[j] \in Range(df.cols) =>
                    Strip(Cell(df.cols, df.rows[r], names[j]).s) # <<>>

C10_EmptyFieldRowsDropped ==
    /\ NoEmptyField(structure_df, StTextCols)
    /\ NoEmptyField(pivot_df, StTextCols)
    /\ NoEmptyField(result_df, StTextCols)
    /\ NoEmptyField(final_report,
                    [j \in 1..Len(StTextCols) |-> DisplayName(StTextCols[j])])

----------------------------------------------------------------------------
(* C11: a documentation row whose PackageCode, StructuralElement or        *)
(* WorkType is empty after trimming is not in the table load_id_data       *)
(* returns, and it adds nothing to any ConfirmedByDocs: every structure    *)
(* row's value is the sum of the volumes of the sheet's rows that have no  *)
(* empty key text and the row's key, also for a structure row with an      *)
(* empty key text of its own.                                              *)

\* the rows of the documentation sheet, cleaned, under the four names
IdSheetRows ==
    LET cols1 == Rename(id_mapping.cols, id_mapping.mapping)
        picked == Project(cols1, id_sheet.rows, IdNeededCols)
    IN  [r \in 1..Len(picked) |-> IdCleanRow(IdNeededCols, picked[r])]

HasEmptyKeyText(cols, row) ==
    \E j \in 1..Len(cols) :
        cols[j] \in Range(IdTextCols) /\ Strip(row[j].s) = <<>>

VolumeOfFullRows(key) ==
    SumSeq([d \in 1..Len(IdSheetRows) |->
               IF /\ ~HasEmptyKeyText(IdNeededCols, IdSheetRows[d])
                  /\ IdKey(IdNeededCols, IdSheetRows[d]) = key
               THEN Cell(IdNeededCols, IdSheetRows[d], Obem_po_dokumentu).n
               ELSE 0])

C11_EmptyKeyRowsExcluded ==
    /\ id_df.ok =>
          \A d \in 1..Len(id_df.rows) : ~HasEmptyKeyText(id_df.cols, id_df.rows[d])
    /\ (Matched /\ MissingIdCols(id_df) = {}) =>
          \A r \in 1..Len(result_df.rows) :
              Confirmed(result_df.cols, result_df.rows[r])
                  = VolumeOfFullRows(StructureKey(result_df.cols, result_df.rows[r]))

\* a documentation row with an empty StructuralElement and a volume, and a
\* structure row with the same Project and work type and an empty Component
C11_Witness ==
    /\ Matched /\ MissingIdCols(id_df) = {}
    /\ \E d \in 1..Len(IdSheetRows) : \E r \in 1..Len(result_df.rows) :
          /\ HasEmptyKeyText(IdNeededCols, IdSheetRows[d])
          /\ Cell(IdNeededCols, IdSheetRows[d], Obem_po_dokumentu).n > 0
          /\ IdKey(IdNeededCols, IdSheetRows[d])
                = StructureKey(result_df.cols, result_df.rows[r])
          /\ Confirmed(result_df.cols, result_df.rows[r]) = 0
    /\ \E q \in 1..Len(result_df.rows) :
          Confirmed(result_df.cols, result_df.rows[q]) > 0

----------------------------------------------------------------------------
(* C12: create_pivot_table returns one row for each distinct 5-tuple of    *)
(* grouping texts of its input and no other row; the three measures of a   *)
(* row are the sums over the input rows of its 5-tuple, ConfirmedByDocs is *)
(* 0, and every permutation of the input rows gives the same rows, each    *)
(* as many times.  (Volumes are integers: the sums are exact.)             *)

Count(rows, x) == Cardinality({r \in 1..Len(rows) : rows[r] = x})

SameRows(a, b) ==
    \A x \in Range(a) \cup Range(b) : Count(a, x) = Count(b, x)

Permuted(rows, p) == [r \in 1..Len(rows) |-> rows[p[r]]]

MeasureOver(rows, cols, key, name) ==
    SumSeq([r \in 1..Len(rows) |->
               IF \A j \in 1..Len(StTextCols) :
                      Cell(cols, rows[r], StTextCols[j]).s = key[j]
               THEN Cell(cols, rows[r], name).n ELSE 0])

----------------------------------------------------------------------------
(* C18: after optimize_matching two rows that agree on Project, Component  *)
(* and ClassifiedWorkType carry the same ConfirmedByDocs, also when they   *)
(* differ in Mark or Unit: each is credited the whole documentation sum of *)
(* the key, so the rows of one key total the sum times their number.       *)

RowsOfTriple(triple) ==
    {q \in 1..Len(result_df.rows) :
        StructureTriple(result_df.cols, result_df.rows[q]) = triple}

DocumentationSum(key) ==
    SumSeq([d \in 1..Len(id_df.rows) |->
               IF IdKey(id_df.cols, id_df.rows[d]) = key
               THEN Cell(id_df.cols, id_df.rows[d], Obem_po_dokumentu).n ELSE 0])

C18_SharedKeyCreditedToEachRow ==
    (Matched /\ MissingIdCols(id_df) = {}) =>
        \A r \in 1..Len(result_df.rows) :
            LET same == RowsOfTriple(StructureTriple(result_df.cols, result_df.rows[r]))
                rows == [q \in 1..Len(result_df.rows) |->
                            IF q \in same
                            THEN Confirmed(result_df.cols, result_df.rows[q]) ELSE 0]
            IN  /\ \A q \in same :
                      Confirmed(result_df.cols, result_df.rows[q])
                          = Confirmed(result_df.cols, result_df.rows[r])
                /\ SumSeq(rows)
                      = Cardinality(same)
                          * DocumentationSum(StructureKey(result_df.cols, result_df.rows[r]))

\* two rows of one key that differ in Mark, both credited
C18_Witness ==
    /\ Matched /\ MissingIdCols(id_df) = {}
    /\ \E r, q \in 1..Len(result_df.rows) :
          /\ r # q
          /\ StructureTriple(result_df.cols, result_df.rows[r])
                = StructureTriple(result_df.cols, result_df.rows[q])
          /\ Cell(result_df.cols, result_df.rows[r], Marka)
                # Cell(result_df.cols, result_df.rows[q], Marka)
          /\ Confirmed(result_df.cols, result_df.rows[r]) > 0

----------------------------------------------------------------------------
(* C13: each of the five stages (structure load, documentation load,       *)
(* aggregate, match, build report) polls the cancellation flag before it   *)
(* does anything; a poll that finds the flag of the progress window set    *)
(* ends the run at once: no stage is executed by that step or later, no    *)
(* report is written and no failure message is logged.                     *)

FlagObservedSet ==
    /\ progress_window # 0
    /\ windows[progress_window].open
    /\ windows[progress_window].is_cancelled

StoppedByCancel(before, after) ==
    /\ after.pc = "done"
    /\ after.exit = "cancelled"
    /\ after.trace = before.trace
    /\ after.written = before.written
    /\ after.failures = before.failures

C13_PollStopsTheRun ==
    /\ [][\A t \in 1..Len(runs) :
            (/\ runs[t].pc \in {"load_structure", "load_id", "pivot", "match", "report"}
             /\ FlagObservedSet
             /\ runs'[t] # runs[t])
                => StoppedByCancel(runs[t], runs'[t])]_vars
    /\ [][\A t \in 1..Len(runs) : runs[t].pc = "done" => runs'[t] = runs[t]]_vars
    /\ [](\A t \in 1..Len(runs) :
            runs[t].exit = "cancelled" =>
                runs[t].written = 0 /\ runs[t].failures = {})

\* a run cancelled at the poll of the match, after three stages
C13_Witness ==
    \E t \in 1..Len(runs) :
        /\ runs[t].exit = "cancelled"
        /\ runs[t].trace = <<"load_structure", "load_id", "pivot">>
        /\ runs[t].written = 0

----------------------------------------------------------------------------
(* C14: the stages of a run execute in the order load structure, load      *)
(* documentation, aggregate, match, build report, write; the report is     *)
(* written at most once, and only when both files were found and both      *)
(* loads and the aggregation returned a table; with a file missing no      *)
(* load is attempted, and after a None no later stage runs.                *)

StageOrder == <<"load_structure", "load_id", "pivot", "match", "report", "write">>

IsPrefix(a, b) == Len(a) <= Len(b) /\ \A i \in 1..Len(a) : a[i] = b[i]

HasFile(folder, prefix) ==
    \E i \in 1..Len(folder.files) :
        /\ Len(folder.files[i]) >= 2
        /\ Lower(folder.files[i])[1] = prefix
        /\ Lower(folder.files[i])[Len(folder.files[i])] = ".xlsx"

BothFilesFound(folder) == HasFile(folder, IdFilePrefix) /\ HasFile(folder, StFilePrefix)

Last(q) == q[Len(q)]

C14_StagesInOrder ==
    \A t \in 1..Len(runs) :
        LET run == runs[t]
            structure == load_structure_data(run.folder.st_sheet)
            docs == load_id_data(run.folder.id_sheet)
            pivot == create_pivot_table(structure)
        IN  /\ IsPrefix(run.trace, StageOrder)
            /\ run.written <= 1
            /\ run.written = 1 =>
                  /\ BothFilesFound(run.folder)
                  /\ structure.ok /\ docs.ok /\ pivot.ok
                  /\ Last(run.trace) = "write"
            /\ ~BothFilesFound(run.folder) => run.trace = <<>>
            /\ (Len(run.trace) >= 1 /\ ~structure.ok) =>
                  run.trace = <<"load_structure">> /\ run.written = 0
            /\ (Len(run.trace) >= 2 /\ ~docs.ok) =>
                  Len(run.trace) = 2 /\ run.written = 0
            /\ (Len(run.trace) >= 3 /\ ~pivot.ok) =>
                  Len(run.trace) = 3 /\ run.written = 0

\* a run that went through every stage and wrote its report
C14_Witness ==
    \E t \in 1..Len(runs) :
        /\ runs[t].exit = "saved"
        /\ runs[t].trace = StageOrder
        /\ runs[t].written = 1

----------------------------------------------------------------------------
----------------------------------------------------------------------------
(* C16: once every thread has finished and no check_thread is left to      *)
(* run, the processor is idle again: every progress window is closed,      *)
(* progress_window is None, and no thread died of an exception that left   *)
(* process_files.                                                          *)

CheckThreadLeft(t) ==
    \/ checks[t].state = "closing"
    \/ checks[t].state = "pending" /\ windows[checks[t].on].open

Quiescent ==
    /\ Len(runs) > 0
    /\ \A t \in 1..Len(runs) : runs[t].pc = "done" /\ ~CheckThreadLeft(t)

C16_EveryRunReturnsToIdle ==
    Quiescent =>
        /\ progress_window = 0
        /\ \A w \in 1..Len(windows) : ~windows[w].open
        /\ \A t \in 1..Len(runs) : runs[t].exit # "raised"

----------------------------------------------------------------------------
(* C17: runs share nothing: a run is aborted by cancellation only when the *)
(* flag of its own window was set, and the window of a run is closed only  *)
(* after that run has ended, progress_window being cleared by its own      *)
(* check_thread.                                                           *)
C17_RunsShareNothing ==
    \A t \in 1..Len(runs) :
        /\ runs[t].exit = "cancelled" => windows[t].is_cancelled
        /\ ~windows[t].open => runs[t].pc = "done"
        /\ checks[t].state \in {"closing", "done"} => ~windows[t].open

====
